---- MODULE Spec2Model ----
(***************************************************************************)
(* Inventory tracker: the hosted tables (inventory_items, stock_movements),*)
(* the page's query cache, dialogs and filters, the two forms and the      *)
(* inventoryService calls that connect them.                               *)
(*                                                                         *)
(* Text is a sequence of one-character strings ("" is <<>>).  An optional  *)
(* member (JS undefined, SQL NULL, NaN for a parsed number) is Absent, a   *)
(* present one is Some(v).                                                 *)
(***************************************************************************)
EXTENDS Integers, Sequences, FiniteSets, TLC

\* ------------------------------------------------------------------ bounds
MaxQty == 1
MaxMovements == 1
MaxImportRows == 1
MaxThreshold == 1

\* ------------------------------------------------------------- value sets
ItemIds == {"i1", "i2"}
Absent == <<>>
Some(v) == <<v>>
NoRow == [absent |-> TRUE]
NoItem == [absent |-> TRUE]
EmptyText == <<>>
Bolt == <<"B", "o">>
Names == {Bolt}
Kg == <<"k", "g">>
Units == {Kg}
SkuA == <<"a">>
SkuB == <<"b">>
Skus == {SkuA, SkuB}
AdjustmentTypes == {"increase", "reduce"}
AdjustmentReasons == {"restock", "sale"}

VARIABLES
  userId,           \* supabase.auth.getUser(): TRUE when a user is signed in
  dbItems,          \* table inventory_items: id -> row, or NoRow
  dbMovements,      \* table stock_movements: rows in insertion order
  usedIds,          \* ids uuidv4 / randomUUID has handed out
  items,            \* Index: data of the 'inventory-items' query
  adjustItem,       \* Index: the item prop of the open adjustment dialog
                    \* (selectedItem while isAdjustFormOpen), NoItem when closed
  editingItem,      \* Index: item shown in the edit dialog
  isFormOpen,       \* Index: add dialog open
  searchQuery,      \* Index: text of the search box
  activeTab,        \* Index: "all" or "low-stock"
  last,             \* the most recent step: the call made, what was submitted, how it ended
  tableItems,       \* InventoryTable: the items prop
  sortField,        \* InventoryTable: "name", "quantity" or "purchaseDate"
  sortDirection,    \* InventoryTable: "asc" or "desc"
  currentPage,      \* InventoryPagination: the currentPage prop
  totalPages        \* InventoryPagination: the totalPages prop

tableVars == <<tableItems, sortField, sortDirection>>
pageVars == <<currentPage, totalPages>>

vars == <<userId, dbItems, dbMovements, usedIds, items, adjustItem,
          editingItem, isFormOpen, searchQuery, activeTab, last,
          tableItems, sortField, sortDirection, currentPage, totalPages>>

\* ------------------------------------------------------- supabase-types.ts
\* `x || undefined` on a text column
TextOrUndefined(col) == IF col = Absent \/ col = Some(EmptyText) THEN Absent ELSE col

\* `x ? Number(x) : undefined` on a numeric column
NumberOrUndefined(col) == IF col = Absent \/ col = Some(0) THEN Absent ELSE col

mapSupabaseToInventoryItem(id, row) ==
  [id |-> id,
   name |-> row.name,
   description |-> TextOrUndefined(row.description),
   quantity |-> row.quantity,
   unit |-> row.unit,
   supplier |-> TextOrUndefined(row.supplier),
   sku |-> TextOrUndefined(row.sku),
   minStockThreshold |-> NumberOrUndefined(row.min_stock_threshold)]

prepareInventoryItemForSupabase(item) ==
  [id |-> item.id,
   name |-> item.name,
   description |-> item.description,
   quantity |-> item.quantity,
   unit |-> item.unit,
   supplier |-> item.supplier,
   sku |-> item.sku,
   min_stock_threshold |-> item.minStockThreshold]

\* quantity_before and quantity_after filled from the wrong members
prepareStockMovementSwapped(movement) ==
  [item_id |-> movement.itemId,
   quantity_before |-> movement.quantityAfter,
   quantity_after |-> movement.quantityBefore,
   adjustment_type |-> movement.adjustmentType,
   reason |-> movement.reason]

prepareStockMovementForSupabase(movement) ==
  [item_id |-> movement.itemId,
   quantity_before |-> movement.quantityBefore,
   quantity_after |-> movement.quantityAfter,
   adjustment_type |-> movement.adjustmentType,
   reason |-> movement.reason]

\* ------------------------------------------------------ the hosted tables
\* insert(p): an undefined member is not sent, its column is left NULL
InsertRow(p) ==
  [name |-> p.name,
   description |-> p.description,
   quantity |-> p.quantity,
   unit |-> p.unit,
   supplier |-> p.supplier,
   sku |-> p.sku,
   min_stock_threshold |-> p.min_stock_threshold]

\* update(p): an undefined member is not sent, its column keeps its value
Keep(old, new) == IF new = Absent THEN old ELSE new

UpdateRow(old, p) ==
  [name |-> p.name,
   description |-> Keep(old.description, p.description),
   quantity |-> p.quantity,
   unit |-> p.unit,
   supplier |-> Keep(old.supplier, p.supplier),
   sku |-> Keep(old.sku, p.sku),
   min_stock_threshold |-> Keep(old.min_stock_threshold, p.min_stock_threshold)]

\* ------------------------------------------------------ inventoryService
getInventoryItems(db) ==
  [i \in ItemIds |->
     IF db[i] = NoRow THEN NoItem ELSE mapSupabaseToInventoryItem(i, db[i])]

\* addInventoryItem(item); dbOk: the insert returns no error
addInventoryItem(db, auth, item, dbOk) ==
  IF ~auth THEN [outcome |-> "User not authenticated", db |-> db]
  ELSE IF ~dbOk \/ db[item.id] # NoRow THEN [outcome |-> "error", db |-> db]
  ELSE [outcome |-> "ok",
        db |-> [db EXCEPT ![item.id] = InsertRow(prepareInventoryItemForSupabase(item))]]

\* updateInventoryItem without the check of the signed-in user
updateInventoryItemNoAuth(db, auth, item, dbOk) ==
  IF ~dbOk \/ db[item.id] = NoRow THEN [outcome |-> "error", db |-> db]
  ELSE [outcome |-> "ok",
        db |-> [db EXCEPT ![item.id] =
                  UpdateRow(db[item.id], prepareInventoryItemForSupabase(item))]]

\* updateInventoryItem(item); .single() reports an error when no row matched
updateInventoryItem(db, auth, item, dbOk) ==
  IF ~auth THEN [outcome |-> "User not authenticated", db |-> db]
  ELSE IF ~dbOk \/ db[item.id] = NoRow THEN [outcome |-> "error", db |-> db]
  ELSE [outcome |-> "ok",
        db |-> [db EXCEPT ![item.id] =
                  UpdateRow(db[item.id], prepareInventoryItemForSupabase(item))]]

\* deleteInventoryItem(id); dbOk: the delete returns no error
deleteInventoryItem(db, id, dbOk) ==
  IF ~dbOk THEN [outcome |-> "error", db |-> db]
  ELSE [outcome |-> "ok", db |-> [db EXCEPT ![id] = NoRow]]

\* the earlier addStockMovement, which only inserted the movement row
SetItemQuantitySkipped(db, itemId, quantity) == db

\* the item-quantity update of addStockMovement: .update({quantity}).eq('id', itemId);
\* an update that matches no row changes nothing and reports no error
SetItemQuantity(db, itemId, quantity) ==
  IF db[itemId] = NoRow THEN db ELSE [db EXCEPT ![itemId].quantity = quantity]

\* addStockMovement without the `throw movementError`: the item update runs
\* although the insert failed
addStockMovementNoThrow(db, movs, auth, movement, insertOk, updateOk) ==
  IF ~auth
  THEN [outcome |-> "User not authenticated", db |-> db, movs |-> movs]
  ELSE IF ~insertOk
  THEN [outcome |-> "movementError",
        db |-> IF updateOk
               THEN SetItemQuantity(db, movement.itemId, movement.quantityAfter)
               ELSE db,
        movs |-> movs]
  ELSE LET inserted == Append(movs, prepareStockMovementForSupabase(movement)) IN
    IF ~updateOk
    THEN [outcome |-> "updateError", db |-> db, movs |-> inserted]
    ELSE [outcome |-> "ok",
          db |-> SetItemQuantity(db, movement.itemId, movement.quantityAfter),
          movs |-> inserted]

\* addStockMovement(movement): insert the movement row, then set the item's
\* quantity; insertOk / updateOk: the respective call returns no error
addStockMovement(db, movs, auth, movement, insertOk, updateOk) ==
  IF ~auth
  THEN [outcome |-> "User not authenticated", db |-> db, movs |-> movs]
  ELSE IF ~insertOk
  THEN [outcome |-> "movementError", db |-> db, movs |-> movs]
  ELSE LET inserted == Append(movs, prepareStockMovementForSupabase(movement)) IN
    IF ~updateOk
    THEN [outcome |-> "updateError", db |-> db, movs |-> inserted]
    ELSE [outcome |-> "ok",
          db |-> SetItemQuantity(db, movement.itemId, movement.quantityAfter),
          movs |-> inserted]

\* ------------------------------------------------------------------- Init
Init ==
  /\ userId = TRUE
  /\ dbItems = [i \in ItemIds |-> NoRow]
  /\ dbMovements = <<>>
  /\ usedIds = {}
  /\ items = [i \in ItemIds |-> NoItem]
  /\ adjustItem = NoItem
  /\ editingItem = NoItem
  /\ isFormOpen = FALSE
  /\ searchQuery = EmptyText
  /\ activeTab = "all"
  /\ last = [op |-> "init"]
  /\ tableItems = <<>>
  /\ sortField = "name"
  /\ sortDirection = "asc"
  /\ currentPage = 1
  /\ totalPages = 0

\* ---------------------------------------------------------- AuthContext
signIn ==
  /\ ~userId
  /\ userId' = TRUE
  /\ last' = [op |-> "signIn"]
  /\ UNCHANGED <<dbItems, dbMovements, usedIds, items, adjustItem,
                 editingItem, isFormOpen, searchQuery, activeTab>>
  /\ UNCHANGED <<tableVars, pageVars>>

signOut ==
  /\ userId
  /\ userId' = FALSE
  /\ last' = [op |-> "signOut"]
  /\ UNCHANGED <<dbItems, dbMovements, usedIds, items, adjustItem,
                 editingItem, isFormOpen, searchQuery, activeTab>>
  /\ UNCHANGED <<tableVars, pageVars>>

\* ------------------------------------------------ StockAdjustmentForm
\* what the user can submit: "" in the quantity field coerces to 0
AdjustValues ==
  [adjustmentType : AdjustmentTypes, quantity : 0..MaxQty, reason : AdjustmentReasons]

\* the same with the reason left at the form's default
DefaultReasonValues ==
  [adjustmentType : AdjustmentTypes, quantity : 0..MaxQty, reason : {"restock"}]

\* the schema with min(0) in place of positive()
AdjustSchemaOkMinZero(values) == values.quantity >= 0

\* formSchema: quantity: z.coerce.number().positive()
AdjustSchemaOk(values) == values.quantity > 0

\* handleSubmit without the reduce check
AdjustHandleSubmitUnchecked(item, values) ==
  LET quantityBefore == item.quantity
      quantityAfter == IF values.adjustmentType = "increase"
                       THEN quantityBefore + values.quantity
                       ELSE quantityBefore - values.quantity
  IN [error |-> "none",
      calls |-> <<[itemId |-> item.id,
                   quantityBefore |-> quantityBefore,
                   quantityAfter |-> quantityAfter,
                   adjustmentType |-> values.adjustmentType,
                   reason |-> values.reason]>>]

\* handleSubmit(values) of the form showing `item`: the field it sets an error
\* on and the arguments of its onAdjust calls
AdjustHandleSubmit(item, values) ==
  LET quantityBefore == item.quantity
      quantityAfter == IF values.adjustmentType = "increase"
                       THEN quantityBefore + values.quantity
                       ELSE quantityBefore - values.quantity
  IN IF values.adjustmentType = "reduce" /\ quantityAfter < 0
     THEN [error |-> "quantity", calls |-> <<>>]
     ELSE [error |-> "none",
           calls |-> <<[itemId |-> item.id,
                        quantityBefore |-> quantityBefore,
                        quantityAfter |-> quantityAfter,
                        adjustmentType |-> values.adjustmentType,
                        reason |-> values.reason]>>]

\* ------------------------------------------------------- InventoryForm
\* formSchema: name min(1), quantity min(0), minStockThreshold min(0) optional
InventorySchemaError(values) ==
  IF values.name = EmptyText THEN "name"
  ELSE IF values.quantity < 0 THEN "quantity"
  ELSE IF values.minStockThreshold # Absent /\ values.minStockThreshold[1] < 0
  THEN "minStockThreshold"
  ELSE "none"

\* the list Index hands to the form: items when adding,
\* items.filter(item => item.id !== editingItem.id) when editing
FormItems(its, itemToEdit) ==
  {its[i] : i \in {j \in ItemIds : its[j] # NoItem
                                   /\ (itemToEdit = NoItem \/ j # itemToEdit.id)}}

\* handleSubmit with `item.id === itemToEdit.id` for `!==`
InventoryHandleSubmitSameId(itemToEdit, list, values, newId) ==
  LET isDuplicateSku ==
        \E item \in list :
          /\ item.sku = Some(values.sku)
          /\ (itemToEdit = NoItem \/ item.id = itemToEdit.id)
  IN IF values.sku # EmptyText /\ isDuplicateSku
     THEN [error |-> "sku", calls |-> <<>>]
     ELSE [error |-> "none",
           calls |-> <<[id |-> IF itemToEdit # NoItem THEN itemToEdit.id ELSE newId,
                        name |-> values.name,
                        description |-> Some(values.description),
                        quantity |-> values.quantity,
                        unit |-> values.unit,
                        supplier |-> Some(values.supplier),
                        sku |-> Some(values.sku),
                        minStockThreshold |-> values.minStockThreshold]>>]

\* handleSubmit(values); newId: what uuidv4() returns
InventoryHandleSubmit(itemToEdit, list, values, newId) ==
  LET isDuplicateSku ==
        \E item \in list :
          /\ item.sku = Some(values.sku)
          /\ (itemToEdit = NoItem \/ item.id # itemToEdit.id)
  IN IF values.sku # EmptyText /\ isDuplicateSku
     THEN [error |-> "sku", calls |-> <<>>]
     ELSE [error |-> "none",
           calls |-> <<[id |-> IF itemToEdit # NoItem THEN itemToEdit.id ELSE newId,
                        name |-> values.name,
                        description |-> Some(values.description),
                        quantity |-> values.quantity,
                        unit |-> values.unit,
                        supplier |-> Some(values.supplier),
                        sku |-> Some(values.sku),
                        minStockThreshold |-> values.minStockThreshold]>>]

\* uuidv4() / crypto.randomUUID(): an id not handed out before (ids are
\* interchangeable, so one fresh id stands for any of them)
uuidv4(used) == CHOOSE x \in ItemIds \ used : TRUE

\* ------------------------------------------------------------ Index page
\* the dialogs are modal: a table row or the Add button is reachable only
\* while none is open
NoDialog == ~isFormOpen /\ adjustItem = NoItem /\ editingItem = NoItem

\* a mutation's onSuccess: invalidateQueries(['inventory-items']) refetches the
\* list; onError leaves the query data as it is
Invalidated(outcome, db, its) == IF outcome = "ok" THEN getInventoryItems(db) ELSE its

\* the 'inventory-items' query runs on its own (mount, window focus) and
\* completes, or fails and keeps its data
RefetchItems ==
  /\ \E ok \in BOOLEAN :
       /\ items' = IF ok THEN getInventoryItems(dbItems) ELSE items
       /\ last' = [op |-> "getInventoryItems", outcome |-> IF ok THEN "ok" ELSE "error"]
  /\ UNCHANGED <<userId, dbItems, dbMovements, usedIds, adjustItem,
                 editingItem, isFormOpen, searchQuery, activeTab>>
  /\ UNCHANGED <<tableVars, pageVars>>

\* handleAdjustStock(item) from a table row
OpenAdjust ==
  /\ NoDialog
  /\ \E i \in ItemIds :
       /\ items[i] # NoItem
       /\ adjustItem' = items[i]
  /\ last' = [op |-> "dialog"]
  /\ UNCHANGED <<userId, dbItems, dbMovements, usedIds, items, editingItem,
                 isFormOpen, searchQuery, activeTab>>
  /\ UNCHANGED <<tableVars, pageVars>>

CancelAdjust ==
  /\ adjustItem # NoItem
  /\ adjustItem' = NoItem
  /\ last' = [op |-> "dialog"]
  /\ UNCHANGED <<userId, dbItems, dbMovements, usedIds, items,
                 editingItem, isFormOpen, searchQuery, activeTab>>
  /\ UNCHANGED <<tableVars, pageVars>>

\* the adjustment form is submitted with values from V: schema, handleSubmit, handleStockAdjustment,
\* adjustStockMutation (addStockMovement, then onSuccess / onError)
SubmitAdjustment(V) ==
  /\ adjustItem # NoItem
  /\ \E values \in V, insertOk \in BOOLEAN, updateOk \in BOOLEAN :
       IF ~AdjustSchemaOk(values)
       THEN /\ last' = [op |-> "adjust", outcome |-> "invalid", error |-> "quantity",
                        values |-> values]
            /\ UNCHANGED <<dbItems, dbMovements, items, adjustItem>>
       ELSE LET r == AdjustHandleSubmit(adjustItem, values) IN
         IF r.calls = <<>>
         THEN /\ last' = [op |-> "adjust", outcome |-> "rejected", error |-> r.error,
                          values |-> values]
              /\ UNCHANGED <<dbItems, dbMovements, items, adjustItem>>
         ELSE LET s == addStockMovement(dbItems, dbMovements, userId, r.calls[1],
                                        insertOk, updateOk) IN
              /\ r.calls[1].quantityAfter <= MaxQty
              /\ Len(dbMovements) < MaxMovements
              /\ dbItems' = s.db
              /\ dbMovements' = s.movs
              /\ items' = Invalidated(s.outcome, s.db, items)
              /\ adjustItem' = IF s.outcome = "ok" THEN NoItem ELSE adjustItem
              /\ last' = [op |-> "adjust", outcome |-> s.outcome, error |-> "none",
                          values |-> values, movement |-> r.calls[1]]
  /\ UNCHANGED <<userId, usedIds, editingItem, isFormOpen, searchQuery, activeTab>>
  /\ UNCHANGED <<tableVars, pageVars>>

OpenAddForm ==
  /\ NoDialog
  /\ isFormOpen' = TRUE
  /\ last' = [op |-> "dialog"]
  /\ UNCHANGED <<userId, dbItems, dbMovements, usedIds, items, adjustItem,
                 editingItem, searchQuery, activeTab>>
  /\ UNCHANGED <<tableVars, pageVars>>

CancelAddForm ==
  /\ isFormOpen
  /\ isFormOpen' = FALSE
  /\ last' = [op |-> "dialog"]
  /\ UNCHANGED <<userId, dbItems, dbMovements, usedIds, items, adjustItem,
                 editingItem, searchQuery, activeTab>>
  /\ UNCHANGED <<tableVars, pageVars>>

\* the add form is submitted with values from V: schema, handleSubmit,
\* handleAddItem (the id is already set), addItemMutation (addInventoryItem,
\* then onSuccess / onError)
SubmitAddForm(V) ==
  /\ isFormOpen
  /\ usedIds # ItemIds
  /\ \E values \in V, newId \in {uuidv4(usedIds)}, dbOk \in BOOLEAN :
       IF InventorySchemaError(values) # "none"
       THEN /\ last' = [op |-> "add", outcome |-> "invalid",
                        error |-> InventorySchemaError(values), values |-> values]
            /\ UNCHANGED <<dbItems, usedIds, items, isFormOpen>>
       ELSE LET r == InventoryHandleSubmit(NoItem, FormItems(items, NoItem), values, newId) IN
         IF r.calls = <<>>
         THEN /\ last' = [op |-> "add", outcome |-> "rejected", error |-> r.error,
                          values |-> values]
              /\ UNCHANGED <<dbItems, usedIds, items, isFormOpen>>
         ELSE LET s == addInventoryItem(dbItems, userId, r.calls[1], dbOk) IN
              /\ usedIds' = usedIds \cup {newId}
              /\ dbItems' = s.db
              /\ items' = Invalidated(s.outcome, s.db, items)
              /\ isFormOpen' = (s.outcome # "ok")
              /\ last' = [op |-> "add", outcome |-> s.outcome, error |-> "none",
                          values |-> values, id |-> r.calls[1].id]
  /\ UNCHANGED <<userId, dbMovements, adjustItem, editingItem,
                 searchQuery, activeTab>>
  /\ UNCHANGED <<tableVars, pageVars>>

\* openEditDialog(item) from a table row
OpenEdit ==
  /\ NoDialog
  /\ \E i \in ItemIds :
       /\ items[i] # NoItem
       /\ editingItem' = items[i]
  /\ last' = [op |-> "dialog"]
  /\ UNCHANGED <<userId, dbItems, dbMovements, usedIds, items, adjustItem,
                 isFormOpen, searchQuery, activeTab>>
  /\ UNCHANGED <<tableVars, pageVars>>

CancelEdit ==
  /\ editingItem # NoItem
  /\ editingItem' = NoItem
  /\ last' = [op |-> "dialog"]
  /\ UNCHANGED <<userId, dbItems, dbMovements, usedIds, items, adjustItem,
                 isFormOpen, searchQuery, activeTab>>
  /\ UNCHANGED <<tableVars, pageVars>>

\* the edit form is submitted with values from V: schema, handleSubmit,
\* handleEditItem, updateItemMutation (updateInventoryItem, then onSuccess / onError)
SubmitEditForm(V) ==
  /\ editingItem # NoItem
  /\ \E values \in V, dbOk \in BOOLEAN :
       IF InventorySchemaError(values) # "none"
       THEN /\ last' = [op |-> "edit", outcome |-> "invalid",
                        error |-> InventorySchemaError(values), values |-> values]
            /\ UNCHANGED <<dbItems, items, editingItem>>
       ELSE LET r == InventoryHandleSubmit(editingItem, FormItems(items, editingItem),
                                           values, "none") IN
         IF r.calls = <<>>
         THEN /\ last' = [op |-> "edit", outcome |-> "rejected", error |-> r.error,
                          values |-> values]
              /\ UNCHANGED <<dbItems, items, editingItem>>
         ELSE LET s == updateInventoryItem(dbItems, userId, r.calls[1], dbOk) IN
              /\ dbItems' = s.db
              /\ items' = Invalidated(s.outcome, s.db, items)
              /\ editingItem' = IF s.outcome = "ok" THEN NoItem ELSE editingItem
              /\ last' = [op |-> "edit", outcome |-> s.outcome, error |-> "none",
                          values |-> values, id |-> r.calls[1].id]
  /\ UNCHANGED <<userId, dbMovements, usedIds, adjustItem,
                 isFormOpen, searchQuery, activeTab>>
  /\ UNCHANGED <<tableVars, pageVars>>

\* handleDeleteItem(id) from a table row: deleteItemMutation
DeleteItem ==
  /\ NoDialog
  /\ \E i \in ItemIds, dbOk \in BOOLEAN :
       /\ items[i] # NoItem
       /\ LET s == deleteInventoryItem(dbItems, i, dbOk) IN
            /\ dbItems' = s.db
            /\ items' = Invalidated(s.outcome, s.db, items)
            /\ last' = [op |-> "delete", outcome |-> s.outcome, id |-> i]
  /\ UNCHANGED <<userId, dbMovements, usedIds, adjustItem,
                 editingItem, isFormOpen, searchQuery, activeTab>>
  /\ UNCHANGED <<tableVars, pageVars>>

\* the row checks without the unit check
ImportErrorNoUnit(row, existingSkus) ==
  IF row.name = EmptyText THEN "Name is required"
  ELSE IF row.quantity = Absent THEN "Quantity must be a valid number"
  ELSE IF row.sku # Absent /\ row.sku[1] \in existingSkus THEN "SKU already exists"
  ELSE "none"

\* the row checks without the SKU check
ImportErrorNoSku(row, existingSkus) ==
  IF row.name = EmptyText THEN "Name is required"
  ELSE IF row.quantity = Absent THEN "Quantity must be a valid number"
  ELSE IF row.unit = EmptyText THEN "Unit is required"
  ELSE "none"

\* ------------------------------------------- importInventoryFromCsv
\* one scanned data line: the members of newItem (name and unit are the cell
\* text, quantity and minStockThreshold are parseFloat's result, Absent for NaN
\* or an empty cell; `|| undefined` makes an empty sku Absent)
ImportError(row, existingSkus) ==
  IF row.name = EmptyText THEN "Name is required"
  ELSE IF row.quantity = Absent THEN "Quantity must be a valid number"
  ELSE IF row.unit = EmptyText THEN "Unit is required"
  ELSE IF row.sku # Absent /\ row.sku[1] \in existingSkus THEN "SKU already exists"
  ELSE "none"

\* a line for which `!lines[i].trim()` holds
BlankLine == [blank |-> TRUE]

\* the row loop from line k on (line 0 is the header); free: the ids randomUUID
\* can still return, fails: the lines whose insert returns an error
RECURSIVE ImportLoop(_, _, _, _, _, _, _, _)
ImportLoop(rows, k, db, auth, existingSkus, free, fails, acc) ==
  IF k > Len(rows) THEN [db |-> db, free |-> free, success |-> acc.success,
                         errors |-> acc.errors]
  ELSE IF rows[k] = BlankLine
  THEN ImportLoop(rows, k + 1, db, auth, existingSkus, free, fails, acc)
  ELSE LET row == rows[k]
           err == ImportError(row, existingSkus)
       IN IF err # "none"
          THEN ImportLoop(rows, k + 1, db, auth, existingSkus, free, fails,
                          [acc EXCEPT !.errors = Append(@, [row |-> k, error |-> err])])
          ELSE LET id == uuidv4(ItemIds \ free)
                   item == [id |-> id,
                            name |-> row.name,
                            description |-> row.description,
                            quantity |-> row.quantity[1],
                            unit |-> row.unit,
                            supplier |-> row.supplier,
                            sku |-> row.sku,
                            minStockThreshold |-> row.minStockThreshold]
                   r == addInventoryItem(db, auth, item, k \notin fails)
               IN IF r.outcome = "ok"
                  THEN ImportLoop(rows, k + 1, r.db, auth,
                                  IF item.sku # Absent
                                  THEN existingSkus \cup {item.sku[1]} ELSE existingSkus,
                                  free \ {id}, fails,
                                  [acc EXCEPT !.success = Append(@, id)])
                  ELSE ImportLoop(rows, k + 1, db, auth, existingSkus, free \ {id}, fails,
                                  [acc EXCEPT !.errors =
                                     Append(@, [row |-> k, error |-> r.outcome])])

\* an import whose row loop ends at the first line that fails
importInventoryFromCsvStopping(db, auth, rows, free, readOk, fails) ==
  IF ~auth
  THEN [outcome |-> "User not authenticated", db |-> db, free |-> free,
        success |-> <<>>, errors |-> <<>>]
  ELSE IF ~readOk
  THEN [outcome |-> "error", db |-> db, free |-> free, success |-> <<>>, errors |-> <<>>]
  ELSE LET existingItems == getInventoryItems(db)
           existingSkus == {existingItems[i].sku[1] :
                              i \in {j \in ItemIds : existingItems[j] # NoItem
                                                     /\ existingItems[j].sku # Absent}}
           all == ImportLoop(rows, 1, db, auth, existingSkus, free, fails,
                             [success |-> <<>>, errors |-> <<>>])
           r == IF all.errors = <<>> THEN all
                ELSE ImportLoop(SubSeq(rows, 1, all.errors[1].row), 1, db, auth,
                                existingSkus, free, fails,
                                [success |-> <<>>, errors |-> <<>>])
       IN [outcome |-> "ok", db |-> r.db, free |-> r.free, success |-> r.success,
           errors |-> r.errors]

\* importInventoryFromCsv on the scanned lines `rows`; readOk: the
\* getInventoryItems call that collects the existing SKUs returns no error
importInventoryFromCsv(db, auth, rows, free, readOk, fails) ==
  IF ~auth
  THEN [outcome |-> "User not authenticated", db |-> db, free |-> free,
        success |-> <<>>, errors |-> <<>>]
  ELSE IF ~readOk
  THEN [outcome |-> "error", db |-> db, free |-> free, success |-> <<>>, errors |-> <<>>]
  ELSE LET existingItems == getInventoryItems(db)
           existingSkus == {existingItems[i].sku[1] :
                              i \in {j \in ItemIds : existingItems[j] # NoItem
                                                     /\ existingItems[j].sku # Absent}}
           r == ImportLoop(rows, 1, db, auth, existingSkus, free, fails,
                           [success |-> <<>>, errors |-> <<>>])
       IN [outcome |-> "ok", db |-> r.db, free |-> r.free, success |-> r.success,
           errors |-> r.errors]

SeqsUpTo(S, n) == UNION {[1..m -> S] : m \in 0..n}

\* the lines of `rows` that are not blank
DataLines(rows) == {k \in 1..Len(rows) : rows[k] # BlankLine}

\* a CSV file whose lines after the header scan to a member of F is imported
ImportCsv(F) ==
  /\ \E rows \in {r \in F : Cardinality(ItemIds \ usedIds) >= Cardinality(DataLines(r))},
        readOk \in BOOLEAN :
     \E fails \in IF readOk THEN SUBSET DataLines(rows) ELSE {{}} :
       /\ LET s == importInventoryFromCsv(dbItems, userId, rows, ItemIds \ usedIds,
                                          readOk, fails) IN
            /\ dbItems' = s.db
            /\ usedIds' = ItemIds \ s.free
            /\ last' = [op |-> "import", outcome |-> s.outcome,
                        success |-> s.success, errors |-> s.errors]
  /\ UNCHANGED <<userId, dbMovements, items, adjustItem, editingItem,
                 isFormOpen, searchQuery, activeTab>>
  /\ UNCHANGED <<tableVars, pageVars>>

\* ------------------------------------------------------ text (JS strings)
Nut == <<"N", "u">>
Blank == <<" ">>

toLowerCaseChar(c) ==
  CASE c = "B" -> "b"
    [] c = "N" -> "n"
    [] OTHER -> c

toLowerCase(t) == [k \in 1..Len(t) |-> toLowerCaseChar(t[k])]

RECURSIVE trimStart(_)
trimStart(t) == IF t # <<>> /\ Head(t) = " " THEN trimStart(Tail(t)) ELSE t

RECURSIVE trimEnd(_)
trimEnd(t) ==
  IF t # <<>> /\ t[Len(t)] = " " THEN trimEnd(SubSeq(t, 1, Len(t) - 1)) ELSE t

trim(t) == trimEnd(trimStart(t))

includes(t, part) ==
  \E k \in 0..(Len(t) - Len(part)) : SubSeq(t, k + 1, k + Len(part)) = part

\* `opt?.toLowerCase().includes(part)`: undefined (falsy) for an undefined member
OptIncludes(opt, part) == opt # Absent /\ includes(toLowerCase(opt[1]), part)

\* ------------------------------------------------------------ CSV text
Quote == "\""
Comma == ","
NewLine == "\n"

\* Array.prototype.join
RECURSIVE join(_, _)
join(parts, sep) ==
  IF parts = <<>> THEN <<>>
  ELSE IF Len(parts) = 1 THEN parts[1]
  ELSE parts[1] \o <<sep>> \o join(Tail(parts), sep)

\* String.prototype.split on a one-character separator: the pieces between
\* consecutive occurrences of sep
split(t, sep) ==
  LET at == {k \in 1..Len(t) : t[k] = sep}
      \* the position of the n-th separator; 0 and Len(t) + 1 bound the text
      pos(n) == IF n = 0 THEN 0
                ELSE IF n > Cardinality(at) THEN Len(t) + 1
                ELSE CHOOSE k \in at : Cardinality({h \in at : h < k}) = n - 1
  IN [n \in 1..(Cardinality(at) + 1) |-> SubSeq(t, pos(n - 1) + 1, pos(n) - 1)]

\* cell.replace(/"/g, '""')
RECURSIVE doubleQuotes(_)
doubleQuotes(cell) ==
  IF cell = <<>> THEN <<>>
  ELSE IF Head(cell) = Quote THEN <<Quote, Quote>> \o doubleQuotes(Tail(cell))
  ELSE <<Head(cell)>> \o doubleQuotes(Tail(cell))

hasChar(cell, c) == \E k \in 1..Len(cell) : cell[k] = c

\* the cell rule of exportInventoryToCsv
EscapeCell(cell) ==
  IF hasChar(cell, Comma) \/ hasChar(cell, Quote)
  THEN <<Quote>> \o doubleQuotes(cell) \o <<Quote>>
  ELSE cell

\* row.map(escape).join(',')
EncodeRow(cells) == join([k \in 1..Len(cells) |-> EscapeCell(cells[k])], Comma)

\* Number.prototype.toString for an integer
DigitChar(d) ==
  CASE d = 0 -> "0" [] d = 1 -> "1" [] d = 2 -> "2" [] d = 3 -> "3" [] d = 4 -> "4"
    [] d = 5 -> "5" [] d = 6 -> "6" [] d = 7 -> "7" [] d = 8 -> "8" [] d = 9 -> "9"

RECURSIVE digitsOf(_)
digitsOf(n) == IF n < 10 THEN <<DigitChar(n)>> ELSE Append(digitsOf(n \div 10), DigitChar(n % 10))

toString(n) == IF n < 0 THEN <<"-">> \o digitsOf(-n) ELSE digitsOf(n)

\* `opt || ''` on an optional text
TextOrEmpty(opt) == IF opt = Absent THEN EmptyText ELSE opt[1]

\* `opt?.toString() || ''` on an optional number
NumberTextOrEmpty(opt) == IF opt = Absent THEN EmptyText ELSE toString(opt[1])

NameHeader == <<"N", "a", "m", "e">>
DescriptionHeader == <<"D", "e", "s", "c", "r", "i", "p", "t", "i", "o", "n">>
QuantityHeader == <<"Q", "u", "a", "n", "t", "i", "t", "y">>
UnitHeader == <<"U", "n", "i", "t">>
PurchaseDateHeader == <<"P", "u", "r", "c", "h", "a", "s", "e", " ", "D", "a", "t", "e">>
SupplierHeader == <<"S", "u", "p", "p", "l", "i", "e", "r">>
SkuHeader == <<"S", "K", "U">>
MinStockThresholdHeader == <<"M", "i", "n", " ", "S", "t", "o", "c", "k", " ", "T", "h", "r", "e", "s", "h", "o", "l", "d">>

\* the headers array of exportInventoryToCsv
HeaderNames ==
  <<NameHeader, DescriptionHeader, QuantityHeader, UnitHeader,
    PurchaseDateHeader, SupplierHeader, SkuHeader, MinStockThresholdHeader>>

\* the cells of one item; no item of this model has a purchaseDate
ExportCells(item) ==
  <<item.name,
    TextOrEmpty(item.description),
    toString(item.quantity),
    item.unit,
    EmptyText,
    TextOrEmpty(item.supplier),
    TextOrEmpty(item.sku),
    NumberTextOrEmpty(item.minStockThreshold)>>

\* exportInventoryToCsv on the list getInventoryItems returned
exportInventoryToCsv(list) ==
  join(<<join(HeaderNames, Comma)>>
         \o [k \in 1..Len(list) |-> EncodeRow(ExportCells(list[k]))],
       NewLine)

\* the row scanner of importInventoryFromCsv from position j (1-based) on
RECURSIVE scanFrom(_, _, _, _, _)
scanFrom(line, j, inQuotes, currentValue, values) ==
  IF j > Len(line) THEN Append(values, currentValue)
  ELSE IF line[j] = Quote
  THEN IF j < Len(line) /\ line[j + 1] = Quote
       THEN scanFrom(line, j + 2, inQuotes, Append(currentValue, Quote), values)
       ELSE scanFrom(line, j + 1, ~inQuotes, currentValue, values)
  ELSE IF line[j] = Comma /\ ~inQuotes
  THEN scanFrom(line, j + 1, inQuotes, <<>>, Append(values, currentValue))
  ELSE scanFrom(line, j + 1, inQuotes, Append(currentValue, line[j]), values)

ScanLine(line) == scanFrom(line, 1, FALSE, <<>>, <<>>)

\* parseFloat on text of blanks, '-', digits and other characters (no '.', no
\* exponent): blanks are skipped, then the longest sign-and-digits prefix is
\* the number; Absent is NaN
DigitValue(c) ==
  CASE c = "0" -> 0 [] c = "1" -> 1 [] c = "2" -> 2 [] c = "3" -> 3 [] c = "4" -> 4
    [] c = "5" -> 5 [] c = "6" -> 6 [] c = "7" -> 7 [] c = "8" -> 8 [] c = "9" -> 9
    [] OTHER -> -1

RECURSIVE digitsValue(_, _, _)
digitsValue(t, seen, acc) ==
  IF t = <<>> \/ DigitValue(Head(t)) < 0
  THEN IF seen THEN Some(acc) ELSE Absent
  ELSE digitsValue(Tail(t), TRUE, 10 * acc + DigitValue(Head(t)))

parseFloat(t) ==
  LET u == trimStart(t) IN
    IF u # <<>> /\ Head(u) = "-"
    THEN LET v == digitsValue(Tail(u), FALSE, 0) IN
           IF v = Absent THEN Absent ELSE Some(-v[1])
    ELSE digitsValue(u, FALSE, 0)

\* headers.indexOf(name), 1-based; 0 when the header is missing
indexOf(headers, name) ==
  IF \E k \in 1..Len(headers) : headers[k] = name
  THEN CHOOSE k \in 1..Len(headers) :
         headers[k] = name /\ \A h \in 1..(k - 1) : headers[h] # name
  ELSE 0

\* values[headers.indexOf(name)]: Absent (undefined) outside the array
CellOf(values, headers, name) ==
  LET k == indexOf(headers, name) IN
    IF k >= 1 /\ k <= Len(values) THEN Some(values[k]) ELSE Absent

\* `cell || undefined`
CellOrUndefined(cell) == IF cell = Absent \/ cell = Some(EmptyText) THEN Absent ELSE cell

\* newItem of a scanned line; name and unit keep '' for a missing cell, which
\* the required-field checks treat alike
NewItem(values, headers) ==
  [name |-> TextOrEmpty(CellOf(values, headers, NameHeader)),
   description |-> CellOrUndefined(CellOf(values, headers, DescriptionHeader)),
   quantity |-> IF CellOf(values, headers, QuantityHeader) = Absent THEN Absent
                ELSE parseFloat(CellOf(values, headers, QuantityHeader)[1]),
   unit |-> TextOrEmpty(CellOf(values, headers, UnitHeader)),
   supplier |-> CellOrUndefined(CellOf(values, headers, SupplierHeader)),
   sku |-> CellOrUndefined(CellOf(values, headers, SkuHeader)),
   minStockThreshold |->
     IF CellOrUndefined(CellOf(values, headers, MinStockThresholdHeader)) = Absent THEN Absent
     ELSE parseFloat(CellOf(values, headers, MinStockThresholdHeader)[1])]

\* one line after the header: skipped when blank, scanned otherwise
ParseLine(line, headers) ==
  IF trim(line) = EmptyText THEN BlankLine ELSE NewItem(ScanLine(line), headers)

\* csvContent.split('\n'), the header, and the lines after it as the row loop
\* sees them
ParseCsv(csvContent) ==
  LET lines == split(csvContent, NewLine)
      headers == split(lines[1], Comma)
  IN [k \in 1..(Len(lines) - 1) |-> ParseLine(lines[k + 1], headers)]

\* --------------------------------------------------- InventoryTable / Index
\* `<` written for `<=`
isLowStockStrict(item) ==
  IF item.minStockThreshold = Absent THEN FALSE
  ELSE item.quantity < item.minStockThreshold[1]

\* InventoryTable.isLowStock(item): the row highlight
isLowStock(item) ==
  IF item.minStockThreshold = Absent THEN FALSE
  ELSE item.quantity <= item.minStockThreshold[1]

\* the items array of the page: the entries of the query data
ItemList(its) == {its[i] : i \in {j \in ItemIds : its[j] # NoItem}}

\* the search test on the query as typed, not trimmed
matchesSearchUntrimmed(item, query) ==
  \/ trim(query) = EmptyText
  \/ includes(toLowerCase(item.name), toLowerCase(query))
  \/ OptIncludes(item.description, toLowerCase(query))
  \/ OptIncludes(item.supplier, toLowerCase(query))
  \/ OptIncludes(item.sku, toLowerCase(query))

matchesSearch(item, query) ==
  \/ trim(query) = EmptyText
  \/ includes(toLowerCase(item.name), trim(toLowerCase(query)))
  \/ OptIncludes(item.description, trim(toLowerCase(query)))
  \/ OptIncludes(item.supplier, trim(toLowerCase(query)))
  \/ OptIncludes(item.sku, trim(toLowerCase(query)))

\* filteredItems: the rows handed to the table
filteredItems ==
  {item \in ItemList(items) :
     IF activeTab = "low-stock"
     THEN /\ matchesSearch(item, searchQuery)
          /\ item.minStockThreshold # Absent
          /\ item.quantity <= item.minStockThreshold[1]
     ELSE matchesSearch(item, searchQuery)}

\* lowStockCount: the badge on the Low Stock tab
lowStockCount ==
  Cardinality({item \in ItemList(items) :
                 /\ item.minStockThreshold # Absent
                 /\ item.quantity <= item.minStockThreshold[1]})

\* the search box: onChange, or the clear button
SetSearchQuery(Q) ==
  /\ NoDialog
  /\ \E q \in Q : q # searchQuery /\ searchQuery' = q
  /\ last' = [op |-> "view"]
  /\ UNCHANGED <<userId, dbItems, dbMovements, usedIds, items, adjustItem,
                 editingItem, isFormOpen, activeTab>>
  /\ UNCHANGED <<tableVars, pageVars>>

\* the tabs: onValueChange
SetActiveTab ==
  /\ NoDialog
  /\ \E tab \in {"all", "low-stock"} : tab # activeTab /\ activeTab' = tab
  /\ last' = [op |-> "view"]
  /\ UNCHANGED <<userId, dbItems, dbMovements, usedIds, items, adjustItem,
                 editingItem, isFormOpen, searchQuery>>
  /\ UNCHANGED <<tableVars, pageVars>>

\* the "Clear filters" link, shown when no item matches
ClearFilters ==
  /\ NoDialog
  /\ filteredItems = {}
  /\ ItemList(items) # {}
  /\ searchQuery' = EmptyText
  /\ activeTab' = "all"
  /\ last' = [op |-> "view"]
  /\ UNCHANGED <<userId, dbItems, dbMovements, usedIds, items, adjustItem,
                 editingItem, isFormOpen>>
  /\ UNCHANGED <<tableVars, pageVars>>

\* ------------------------------------------------- input sets of Spec
StockFormValues ==
  [name : Names,
   description : {EmptyText},
   quantity : (-1)..MaxQty,
   unit : Units,
   supplier : {EmptyText},
   sku : {EmptyText},
   minStockThreshold : {Some(0)}]

StockImportRows ==
  [name : Names,
   description : {Absent},
   quantity : {Absent} \cup {Some(q) : q \in (-1)..MaxQty},
   unit : Units,
   supplier : {Absent},
   sku : {Absent},
   minStockThreshold : {Absent}]

\* the adjustment workflow: items are added, adjusted and deleted
Next ==
  \/ RefetchItems
  \/ OpenAdjust
  \/ CancelAdjust
  \/ SubmitAdjustment(AdjustValues)
  \/ OpenAddForm
  \/ CancelAddForm
  \/ SubmitAddForm(StockFormValues)
  \/ DeleteItem

Spec == Init /\ [][Next]_vars

\* every operation on the stored items
NextAll ==
  \/ RefetchItems
  \/ OpenAdjust
  \/ CancelAdjust
  \/ SubmitAdjustment(DefaultReasonValues)
  \/ OpenAddForm
  \/ CancelAddForm
  \/ SubmitAddForm(StockFormValues)
  \/ OpenEdit
  \/ CancelEdit
  \/ SubmitEditForm(StockFormValues)
  \/ DeleteItem
  \/ ImportCsv(SeqsUpTo(StockImportRows, MaxImportRows))

SpecAll == Init /\ [][NextAll]_vars

\* ------------------------------------------- the list, its filters, its badge
ViewFormValues ==
  [name : {Bolt, Nut},
   description : {EmptyText},
   quantity : 0..MaxQty,
   unit : Units,
   supplier : {EmptyText},
   sku : {EmptyText},
   minStockThreshold : {Some(t) : t \in 0..MaxThreshold}]

SearchQueries == {EmptyText, Blank, <<"b">>, <<"N", "u", " ">>}

NextView ==
  \/ RefetchItems
  \/ OpenAddForm
  \/ CancelAddForm
  \/ SubmitAddForm(ViewFormValues)
  \/ SetSearchQuery(SearchQueries)
  \/ SetActiveTab
  \/ ClearFilters

SpecView == Init /\ [][NextView]_vars

\* ------------------------------------------------------- the SKU of an item
SkuFormValues ==
  [name : Names,
   description : {EmptyText},
   quantity : {0},
   unit : Units,
   supplier : {EmptyText},
   sku : {EmptyText} \cup Skus,
   minStockThreshold : {Some(0)}]

NextSku ==
  \/ RefetchItems
  \/ OpenAddForm
  \/ CancelAddForm
  \/ SubmitAddForm(SkuFormValues)
  \/ OpenEdit
  \/ CancelEdit
  \/ SubmitEditForm(SkuFormValues)
  \/ DeleteItem

SpecSku == Init /\ [][NextSku]_vars

\* ------------------------------------------------------------- CSV import
MaxFileLines == 3

ImportRows ==
  [name : {Bolt, EmptyText},
   description : {Absent},
   quantity : {Absent, Some(0)},
   unit : {Kg},
   supplier : {Absent},
   sku : {Absent, Some(SkuA)},
   minStockThreshold : {Absent}]
  \cup
  [name : {Bolt},
   description : {Absent},
   quantity : {Absent, Some(0)},
   unit : {EmptyText},
   supplier : {Absent},
   sku : {Some(SkuA)},
   minStockThreshold : {Absent}]

ImportFiles == SeqsUpTo(ImportRows \cup {BlankLine}, MaxFileLines)

\* handleImport: one file is imported and its result shown
ImportFile(F) ==
  /\ last.op # "import"
  /\ \E rows \in {r \in F : Cardinality(ItemIds \ usedIds) >= Cardinality(DataLines(r))},
        readOk \in BOOLEAN :
     \E fails \in IF readOk THEN SUBSET DataLines(rows) ELSE {{}} :
       /\ LET s == importInventoryFromCsv(dbItems, userId, rows, ItemIds \ usedIds,
                                          readOk, fails) IN
            /\ dbItems' = s.db
            /\ usedIds' = ItemIds \ s.free
            /\ last' = [op |-> "import", outcome |-> s.outcome, rows |-> rows,
                        success |-> s.success, errors |-> s.errors]
  /\ UNCHANGED <<userId, dbMovements, items, adjustItem, editingItem,
                 isFormOpen, searchQuery, activeTab>>
  /\ UNCHANGED <<tableVars, pageVars>>

\* the import dialog is closed (onCancel, onImportComplete)
CloseImport ==
  /\ last.op = "import"
  /\ last' = [op |-> "dialog"]
  /\ UNCHANGED <<userId, dbItems, dbMovements, usedIds, items, adjustItem,
                 editingItem, isFormOpen, searchQuery, activeTab>>
  /\ UNCHANGED <<tableVars, pageVars>>

NextImport ==
  \/ ImportFile(ImportFiles)
  \/ CloseImport
  \/ RefetchItems
  \/ DeleteItem

SpecImport == Init /\ [][NextImport]_vars

\* ===================================================== addStockMovement
\* the step just taken called addStockMovement(last'.movement)
CalledAddStockMovement == last'.op = "adjust" /\ last'.outcome \notin {"invalid", "rejected"}

\* the stock_movements row that carries the members of movement m
MovementRow(m) ==
  [item_id |-> m.itemId,
   quantity_before |-> m.quantityBefore,
   quantity_after |-> m.quantityAfter,
   adjustment_type |-> m.adjustmentType,
   reason |-> m.reason]

\* C1: when addStockMovement(movement) completes without error, the table has
\* gained exactly one row, that row is for movement.itemId and carries the
\* movement's quantityBefore, quantityAfter, adjustmentType and reason, and the
\* stored quantity of item movement.itemId equals movement.quantityAfter.
C1_SuccessRecordsAndSets ==
  [][(CalledAddStockMovement /\ last'.outcome = "ok") =>
       /\ dbMovements' = Append(dbMovements, MovementRow(last'.movement))
       /\ dbItems'[last'.movement.itemId] # NoRow
       /\ dbItems'[last'.movement.itemId].quantity = last'.movement.quantityAfter]_vars

C1_Witness ==
  /\ last.op = "adjust"
  /\ last.outcome = "ok"
  /\ Len(dbMovements) = 1
  /\ dbItems[last.movement.itemId] # NoRow
  /\ dbItems[last.movement.itemId].quantity = last.movement.quantityAfter

\* C2: addStockMovement is all-or-nothing: whatever its outcome, either the
\* movement row was inserted and the item's stored quantity was set to
\* quantityAfter, or neither the table of movements nor the item changed.
C2_AllOrNothing ==
  [][CalledAddStockMovement =>
       \/ /\ dbMovements' = Append(dbMovements, MovementRow(last'.movement))
          /\ dbItems'[last'.movement.itemId] # NoRow
          /\ dbItems'[last'.movement.itemId].quantity = last'.movement.quantityAfter
       \/ /\ dbMovements' = dbMovements
          /\ dbItems' = dbItems]_vars

QuantityChanged(i) ==
  /\ dbItems[i] # NoRow
  /\ dbItems'[i] # NoRow
  /\ dbItems'[i].quantity # dbItems[i].quantity

\* the table of movements has a row for item i from quantity q1 to quantity q2
Recorded(movs, i, q1, q2) ==
  \E k \in 1..Len(movs) :
    /\ movs[k].item_id = i
    /\ movs[k].quantity_before = q1
    /\ movs[k].quantity_after = q2

\* C4 as stated: whenever any operation changes an existing item's stored
\* quantity from q1 to q2, the history has a movement for that item with
\* quantityBefore = q1 and quantityAfter = q2.
C4_EveryChangeRecorded ==
  [][\A i \in ItemIds :
       QuantityChanged(i) =>
         Recorded(dbMovements', i, dbItems[i].quantity, dbItems'[i].quantity)]_vars

\* C4 amended: whenever a stock adjustment changes an existing item's stored
\* quantity from q1 to q2, the history has gained a movement for that item with
\* quantityAfter = q2 and quantityBefore = the quantity the adjustment dialog
\* showed, which is q1 when the list the dialog was opened from was current.
C4_AdjustmentsRecorded ==
  [][last'.op = "adjust" =>
       \A i \in ItemIds :
         QuantityChanged(i) =>
           /\ i = adjustItem.id
           /\ Recorded(dbMovements', i, adjustItem.quantity, dbItems'[i].quantity)
           /\ items[i] = mapSupabaseToInventoryItem(i, dbItems[i]) =>
                Recorded(dbMovements', i, dbItems[i].quantity, dbItems'[i].quantity)]_vars

\* a successful adjustment has changed a stored quantity and its row is there
C4_Witness ==
  /\ last.op = "adjust"
  /\ last.outcome = "ok"
  /\ last.movement.quantityBefore # last.movement.quantityAfter
  /\ dbItems[last.movement.itemId] # NoRow
  /\ dbItems[last.movement.itemId].quantity = last.movement.quantityAfter
  /\ Recorded(dbMovements, last.movement.itemId, last.movement.quantityBefore,
              last.movement.quantityAfter)

\* ================================================ the adjustment form
\* C7: a submit that passes the schema with adjustmentType 'reduce' and an
\* amount above the shown item's quantity sets an error on the quantity
\* field, calls nothing and leaves both tables as they are; a reduce by at
\* most that quantity and every increase reach onAdjust with a movement for
\* the shown item whose quantityAfter is not negative when reducing.
C7_ReduceBeyondStockRejected ==
  [][(last'.op = "adjust" /\ AdjustSchemaOk(last'.values)) =>
       LET n == last'.values.quantity
           reduce == last'.values.adjustmentType = "reduce"
       IN /\ (reduce /\ n > adjustItem.quantity) =>
               /\ last'.outcome = "rejected"
               /\ last'.error = "quantity"
               /\ dbMovements' = dbMovements
               /\ dbItems' = dbItems
          /\ (~reduce \/ n <= adjustItem.quantity) =>
               /\ last'.outcome \notin {"rejected", "invalid"}
               /\ last'.error = "none"
               /\ last'.movement.itemId = adjustItem.id
               /\ last'.movement.adjustmentType = last'.values.adjustmentType
               /\ reduce => last'.movement.quantityAfter >= 0]_vars

C7_Witness ==
  /\ last.op = "adjust"
  /\ last.outcome = "rejected"
  /\ last.error = "quantity"
  /\ last.values.adjustmentType = "reduce"
  /\ adjustItem # NoItem
  /\ last.values.quantity > adjustItem.quantity

\* C8: a movement the form hands on has an amount n > 0, quantityBefore = the
\* quantity of the item the dialog shows, quantityAfter = quantityBefore + n
\* (> quantityBefore) for 'increase' and quantityBefore - n (>= 0 and
\* < quantityBefore) for 'reduce'; the row inserted for it carries the same.
C8_MovementArithmetic ==
  [][CalledAddStockMovement =>
       LET m == last'.movement
           n == last'.values.quantity
       IN /\ n > 0
          /\ m.quantityBefore = adjustItem.quantity
          /\ m.adjustmentType = "increase" =>
               /\ m.quantityAfter = m.quantityBefore + n
               /\ m.quantityAfter > m.quantityBefore
          /\ m.adjustmentType = "reduce" =>
               /\ m.quantityAfter = m.quantityBefore - n
               /\ 0 <= m.quantityAfter
               /\ m.quantityAfter < m.quantityBefore
          /\ Len(dbMovements') > Len(dbMovements) =>
               LET row == dbMovements'[Len(dbMovements')]
               IN /\ row.quantity_before = m.quantityBefore
                  /\ row.quantity_after = m.quantityAfter
                  /\ row.adjustment_type = m.adjustmentType]_vars

\* an increase of an item whose stored quantity is negative has been recorded
C8_Witness ==
  /\ last.op = "adjust"
  /\ last.outcome = "ok"
  /\ Len(dbMovements) > 0
  /\ dbMovements[Len(dbMovements)].adjustment_type = "increase"
  /\ dbMovements[Len(dbMovements)].quantity_before < 0
  /\ dbMovements[Len(dbMovements)].quantity_after = 0

\* ======================================================= stored quantities
\* C9: in every reachable state the stored quantity of every item is >= 0.
C9_QuantityNonNegative ==
  \A i \in ItemIds : dbItems[i] # NoRow => dbItems[i].quantity >= 0

C6_StoredThresholdIsLowStock ==
  \A i \in ItemIds :
    (/\ dbItems[i] # NoRow
     /\ items[i] = mapSupabaseToInventoryItem(i, dbItems[i])
     /\ dbItems[i].min_stock_threshold # Absent
     /\ dbItems[i].min_stock_threshold[1] >= 0
     /\ dbItems[i].quantity <= dbItems[i].min_stock_threshold[1])
    => /\ isLowStock(items[i])
       /\ lowStockCount >= 1

\* ====================================================================== SKU
\* the entries of the query data a form for itemToEdit is checked against
OtherItems(its, itemToEdit) ==
  {its[i] : i \in {j \in ItemIds :
                     its[j] # NoItem /\ (itemToEdit = NoItem \/ j # itemToEdit.id)}}

\* C10: a submit that passes the schema with a non-empty SKU that another item
\* of the list has (any item when adding, any but the edited one when editing)
\* sets an error on sku and calls nothing; every other submit, one keeping the
\* edited item's own SKU or with an empty SKU included, goes to onSubmit, with
\* itemToEdit.id when editing and with an id not handed out before when adding.
C10_DuplicateSkuRejected ==
  [][(last'.op \in {"add", "edit"} /\ InventorySchemaError(last'.values) = "none") =>
       LET sku == last'.values.sku
           duplicate == /\ sku # EmptyText
                        /\ \E item \in OtherItems(items, IF last'.op = "edit"
                                                         THEN editingItem ELSE NoItem) :
                             item.sku = Some(sku)
       IN /\ duplicate =>
               /\ last'.outcome = "rejected"
               /\ last'.error = "sku"
               /\ dbItems' = dbItems
          /\ ~duplicate =>
               /\ last'.outcome # "rejected"
               /\ last'.error = "none"
               /\ last'.op = "edit" => last'.id = editingItem.id
               /\ last'.op = "add" => last'.id \notin usedIds]_vars

\* an edit that tried to take the SKU of the other item has been rejected
C10_Witness ==
  /\ last.op = "edit"
  /\ last.outcome = "rejected"
  /\ last.error = "sku"
  /\ editingItem # NoItem
  /\ \E i \in ItemIds :
       /\ items[i] # NoItem
       /\ i # editingItem.id
       /\ items[i].sku = Some(last.values.sku)

\* ------------------------------------------------------ session and service
AuthFormValues ==
  [name : {Bolt},
   description : {EmptyText},
   quantity : 0..MaxQty,
   unit : Units,
   supplier : {EmptyText},
   sku : {EmptyText},
   minStockThreshold : {Some(0)}]

AuthImportRows ==
  [name : {Nut},
   description : {Absent},
   quantity : {Some(0)},
   unit : Units,
   supplier : {Absent},
   sku : {Absent},
   minStockThreshold : {Absent}]

\* the session can end and start again while the page and its dialogs are open
NextAuth ==
  \/ signIn
  \/ signOut
  \/ RefetchItems
  \/ OpenAdjust
  \/ CancelAdjust
  \/ SubmitAdjustment(DefaultReasonValues)
  \/ OpenAddForm
  \/ CancelAddForm
  \/ SubmitAddForm(AuthFormValues)
  \/ OpenEdit
  \/ CancelEdit
  \/ SubmitEditForm(AuthFormValues)
  \/ ImportCsv(SeqsUpTo(AuthImportRows, MaxImportRows))

SpecAuth == Init /\ [][NextAuth]_vars

\* ------------------------------------------------------- search and tabs
\* items whose description, supplier and SKU can match a query
SearchFormValues ==
  [name : {Bolt},
   description : {EmptyText, Nut},
   quantity : {0},
   unit : Units,
   supplier : {EmptyText, Nut},
   sku : {EmptyText, SkuA},
   minStockThreshold : {Some(t) : t \in 0..MaxThreshold}]

SearchBoxValues == {EmptyText, Blank, <<"b">>, <<"N", "u", " ">>, <<"a">>}

NextSearch ==
  \/ RefetchItems
  \/ OpenAddForm
  \/ CancelAddForm
  \/ SubmitAddForm(SearchFormValues)
  \/ SetSearchQuery(SearchBoxValues)
  \/ SetActiveTab
  \/ ClearFilters

SpecSearch == Init /\ [][NextSearch]_vars

\* ------------------------------------------------- pure-function harness
\* the application as constructed, apart from the record of the last step
AppStart ==
  /\ userId = TRUE
  /\ dbItems = [i \in ItemIds |-> NoRow]
  /\ dbMovements = <<>>
  /\ usedIds = {}
  /\ items = [i \in ItemIds |-> NoItem]
  /\ adjustItem = NoItem
  /\ editingItem = NoItem
  /\ isFormOpen = FALSE
  /\ searchQuery = EmptyText
  /\ activeTab = "all"
  /\ tableItems = <<>>
  /\ sortField = "name"
  /\ sortDirection = "asc"
  /\ currentPage = 1
  /\ totalPages = 0

appVars == <<userId, dbItems, dbMovements, usedIds, items, adjustItem,
             editingItem, isFormOpen, searchQuery, activeTab>>

\* -------------------------------------------------- InventoryPagination
MaxPages == 6
maxPagesToShow == 5

Max(a, b) == IF a > b THEN a ELSE b
Min(a, b) == IF a < b THEN a ELSE b

\* getPageRange: the entries of the page bar, Some(n) for the link of page n,
\* Absent for an ellipsis
getPageRange(cur, total) ==
  IF total <= maxPagesToShow
  THEN [i \in 1..total |-> Some(i)]
  ELSE LET start == IF cur <= 2 THEN Max(2, cur - 1)
                    ELSE IF cur >= total - 1 THEN total - 2
                    ELSE Max(2, cur - 1)
           end == IF cur <= 2 THEN 3 ELSE Min(total - 1, cur + 1)
       IN <<Some(1)>>
            \o (IF start > 2 THEN <<Absent>> ELSE <<>>)
            \o [i \in 1..(end - start + 1) |-> Some(start + i - 1)]
            \o (IF end < total - 1 THEN <<Absent>> ELSE <<>>)
            \o (IF total > 1 THEN <<Some(total)>> ELSE <<>>)

\* the page the effect asks for with the props it was rendered with, if any
EffectRequestAnyTotal(cur, total) == IF cur > total THEN Some(total) ELSE Absent

EffectRequest(cur, total) == IF cur > total /\ total > 0 THEN Some(total) ELSE Absent

\* the parent mounts the component on page 1 over any number of pages; the
\* effect of the first render is still to run
InitPage ==
  /\ userId = TRUE
  /\ dbItems = [i \in ItemIds |-> NoRow]
  /\ dbMovements = <<>>
  /\ usedIds = {}
  /\ items = [i \in ItemIds |-> NoItem]
  /\ adjustItem = NoItem
  /\ editingItem = NoItem
  /\ isFormOpen = FALSE
  /\ searchQuery = EmptyText
  /\ activeTab = "all"
  /\ last = [op |-> "mount", requested |-> Absent, pending |-> TRUE]
  /\ tableItems = <<>>
  /\ sortField = "name"
  /\ sortDirection = "asc"
  /\ currentPage = 1
  /\ totalPages \in 0..MaxPages

\* onPageChange(page) as the parent implements it: the page becomes the
\* currentPage prop; the component renders again, and its effect runs again,
\* when the prop changed
onPageChange(op, page) ==
  /\ currentPage' = page
  /\ last' = [op |-> op, requested |-> Some(page), pending |-> page # currentPage]

\* the useEffect of the last render; React runs it before the next event
PageEffect ==
  /\ last.pending
  /\ IF EffectRequest(currentPage, totalPages) # Absent
     THEN onPageChange("effect", EffectRequest(currentPage, totalPages)[1])
     ELSE /\ last' = [op |-> "effect", requested |-> Absent, pending |-> FALSE]
          /\ UNCHANGED currentPage
  /\ UNCHANGED <<totalPages, appVars, tableVars>>

\* the component renders its bar only over more than one page
BarShown == ~last.pending /\ totalPages > 1

PreviousPage ==
  /\ BarShown
  /\ currentPage > 1
  /\ onPageChange("previous", currentPage - 1)
  /\ UNCHANGED <<totalPages, appVars, tableVars>>

NextPage ==
  /\ BarShown
  /\ currentPage < totalPages
  /\ onPageChange("next", currentPage + 1)
  /\ UNCHANGED <<totalPages, appVars, tableVars>>

PageLink ==
  /\ BarShown
  /\ \E k \in 1..Len(getPageRange(currentPage, totalPages)) :
       /\ getPageRange(currentPage, totalPages)[k] # Absent
       /\ onPageChange("link", getPageRange(currentPage, totalPages)[k][1])
  /\ UNCHANGED <<totalPages, appVars, tableVars>>

\* the parent renders the component over another number of pages: items were
\* added, deleted or filtered
ItemsChanged ==
  /\ ~last.pending
  /\ \E n \in 0..MaxPages : n # totalPages /\ totalPages' = n
  /\ last' = [op |-> "items", requested |-> Absent, pending |-> TRUE]
  /\ UNCHANGED <<currentPage, appVars, tableVars>>

NextPagination == PageEffect \/ PreviousPage \/ NextPage \/ PageLink \/ ItemsChanged

SpecPage == InitPage /\ [][NextPagination]_vars /\ WF_vars(PageEffect)

\* --------------------------------------------------- InventoryTable sort
MaxRows == 3

SortFields == {"name", "quantity", "purchaseDate"}

\* purchase dates as day numbers
TableRows ==
  [name : {Bolt, Nut}, quantity : {0, 1}, purchaseDate : {Absent, Some(1), Some(2)}]

\* the items prop: each item has its own id, here its position in the prop
TableLists ==
  {[k \in 1..Len(l) |-> [id |-> k, name |-> l[k].name, quantity |-> l[k].quantity,
                         purchaseDate |-> l[k].purchaseDate]] :
     l \in SeqsUpTo(TableRows, MaxRows)}

\* the collation rank of a letter: alphabetical, case ignored
CharRank(c) ==
  CASE c \in {"b", "B"} -> 2
    [] c \in {"n", "N"} -> 14
    [] c \in {"o", "O"} -> 15
    [] c \in {"u", "U"} -> 21
    [] OTHER -> 0

\* String.prototype.localeCompare on words of these letters
RECURSIVE localeCompare(_, _)
localeCompare(a, b) ==
  IF a = <<>> /\ b = <<>> THEN 0
  ELSE IF a = <<>> THEN -1
  ELSE IF b = <<>> THEN 1
  ELSE IF CharRank(Head(a)) # CharRank(Head(b))
  THEN CharRank(Head(a)) - CharRank(Head(b))
  ELSE localeCompare(Tail(a), Tail(b))

\* the comparator with the undefined cases the other way round
compareItemsUndefinedFirst(a, b, field, direction) ==
  IF field = "purchaseDate"
  THEN IF a.purchaseDate = Absent THEN (IF direction = "asc" THEN -1 ELSE 1)
       ELSE IF b.purchaseDate = Absent THEN (IF direction = "asc" THEN 1 ELSE -1)
       ELSE IF direction = "asc" THEN a.purchaseDate[1] - b.purchaseDate[1]
       ELSE b.purchaseDate[1] - a.purchaseDate[1]
  ELSE IF field = "name"
  THEN IF direction = "asc" THEN localeCompare(a.name, b.name)
       ELSE localeCompare(b.name, a.name)
  ELSE IF direction = "asc" THEN a.quantity - b.quantity ELSE b.quantity - a.quantity

\* the comparator handed to sort; only purchaseDate can be undefined
compareItems(a, b, field, direction) ==
  IF field = "purchaseDate"
  THEN IF a.purchaseDate = Absent THEN (IF direction = "asc" THEN 1 ELSE -1)
       ELSE IF b.purchaseDate = Absent THEN (IF direction = "asc" THEN -1 ELSE 1)
       ELSE IF direction = "asc" THEN a.purchaseDate[1] - b.purchaseDate[1]
       ELSE b.purchaseDate[1] - a.purchaseDate[1]
  ELSE IF field = "name"
  THEN IF direction = "asc" THEN localeCompare(a.name, b.name)
       ELSE localeCompare(b.name, a.name)
  ELSE IF direction = "asc" THEN a.quantity - b.quantity ELSE b.quantity - a.quantity

\* [...items].sort(comparator): the arrays sort can return.  Two elements the
\* comparator orders stay in that order, two it calls equal keep the order
\* they had (sort is stable); two elements it orders both ways (both without
\* date: each is 'greater' than the other) can come out either way
sortedItems(list, field, direction) ==
  {rows \in {[k \in 1..Len(list) |-> list[f[k]]] : f \in Permutations(1..Len(list))} :
     \A i \in 1..Len(rows) : \A j \in 1..Len(rows) :
       i < j =>
         LET c == compareItems(rows[i], rows[j], field, direction)
             d == compareItems(rows[j], rows[i], field, direction)
         IN /\ ~(c > 0 /\ d < 0)
            /\ (c = 0 /\ d = 0) => rows[i].id < rows[j].id}

\* the table is mounted with some items
InitSort ==
  /\ userId = TRUE
  /\ dbItems = [i \in ItemIds |-> NoRow]
  /\ dbMovements = <<>>
  /\ usedIds = {}
  /\ items = [i \in ItemIds |-> NoItem]
  /\ adjustItem = NoItem
  /\ editingItem = NoItem
  /\ isFormOpen = FALSE
  /\ searchQuery = EmptyText
  /\ activeTab = "all"
  /\ last = [op |-> "table"]
  /\ tableItems \in TableLists
  /\ sortField = "name"
  /\ sortDirection = "asc"
  /\ currentPage = 1
  /\ totalPages = 0

\* a click on a column header
toggleSort(field) ==
  /\ IF sortField = field
     THEN /\ sortDirection' = (IF sortDirection = "asc" THEN "desc" ELSE "asc")
          /\ UNCHANGED sortField
     ELSE /\ sortField' = field
          /\ sortDirection' = "asc"
  /\ last' = [op |-> "toggleSort", field |-> field]
  /\ UNCHANGED <<tableItems, appVars, pageVars>>

NextSort == \E field \in SortFields : toggleSort(field)

SpecSort == InitSort /\ [][NextSort]_vars

\* ------------------------------------------------------ scanner round trip
MaxCellLen == 2
MaxCells == 2

\* characters of a cell: a plain one, the separator and the quote
CellChars == {"a", Comma, Quote}
Cells == SeqsUpTo(CellChars, MaxCellLen)
CellLists == SeqsUpTo(Cells, MaxCells) \ {<<>>}

InitScan ==
  /\ AppStart
  /\ last \in {[op |-> "cells", cells |-> c] : c \in CellLists}

\* the cells are written as one exported line and the line is scanned
ScanEncoded ==
  /\ last.op = "cells"
  /\ last' = [op |-> "scan", cells |-> last.cells, line |-> EncodeRow(last.cells),
              values |-> ScanLine(EncodeRow(last.cells))]
  /\ UNCHANGED <<appVars, tableVars, pageVars>>

NextScan == ScanEncoded

SpecScan == InitScan /\ [][NextScan]_vars


\* ------------------------------------------------------- export and import
\* texts a form field can hold: plain, with a comma, a double quote
CsvTexts == {<<"a">>, <<"a", Comma>>, <<Quote>>}

\* the description is a Textarea and can also hold a line break
CsvDescriptions == CsvTexts \cup {<<"a", NewLine, "b">>}

SkuOf(i) == IF i = "i1" THEN SkuA ELSE SkuB

\* the rows of the stored items: the first item takes every text, the second
\* is a plain one
CsvStoredRows(i) ==
  IF i = "i1"
  THEN [name : CsvTexts,
        description : {Absent} \cup {Some(d) : d \in CsvDescriptions},
        quantity : 0..MaxQty,
        unit : {Kg},
        supplier : {Absent},
        sku : {Absent, Some(SkuOf(i))},
        min_stock_threshold : {Absent, Some(MaxThreshold)}]
  ELSE [name : {<<"a">>},
        description : {Absent},
        quantity : {0},
        unit : {Kg},
        supplier : {Absent, Some(<<"a">>)},
        sku : {Absent, Some(SkuOf(i))},
        min_stock_threshold : {Absent}]

InitCsv ==
  /\ userId = TRUE
  /\ dbItems \in {db \in [ItemIds -> {NoRow} \cup UNION {CsvStoredRows(i) : i \in ItemIds}] :
                    \A i \in ItemIds : db[i] = NoRow \/ db[i] \in CsvStoredRows(i)}
  /\ dbMovements = <<>>
  /\ usedIds = {i \in ItemIds : dbItems[i] # NoRow}
  /\ items = [i \in ItemIds |-> NoItem]
  /\ adjustItem = NoItem
  /\ editingItem = NoItem
  /\ isFormOpen = FALSE
  /\ searchQuery = EmptyText
  /\ activeTab = "all"
  /\ last = [op |-> "stored"]
  /\ tableItems = <<>>
  /\ sortField = "name"
  /\ sortDirection = "asc"
  /\ currentPage = 1
  /\ totalPages = 0

\* the orders in which the database can return the items `its`
Orderings(its) ==
  {list \in [1..Cardinality(ItemList(its)) -> ItemList(its)] :
     \A k \in 1..Len(list) : \A h \in 1..Len(list) : k # h => list[k] # list[h]}

\* ExportInventoryButton: the stored items are written as CSV text
ExportCsv ==
  /\ last.op = "stored"
  /\ userId
  /\ \E list \in Orderings(getInventoryItems(dbItems)) :
       last' = [op |-> "export", list |-> list, csvContent |-> exportInventoryToCsv(list)]
  /\ UNCHANGED <<appVars, tableVars, pageVars>>

\* the exported text is imported into an inventory without items, every
\* database call returning without error
ImportExported ==
  /\ last.op = "export"
  /\ LET r == importInventoryFromCsv([i \in ItemIds |-> NoRow], userId,
                                     ParseCsv(last.csvContent), ItemIds, TRUE, {})
     IN last' = [op |-> "reimport", list |-> last.list, csvContent |-> last.csvContent,
                 imported |-> getInventoryItems(r.db), success |-> r.success,
                 errors |-> r.errors]
  /\ UNCHANGED <<appVars, tableVars, pageVars>>

NextCsv == ExportCsv \/ ImportExported

SpecCsv == InitCsv /\ [][NextCsv]_vars


\* =============================================================== CSV import
\* the step just taken ran the row loop of importInventoryFromCsv on last'.rows
RanImport == last'.op = "import" /\ last'.outcome = "ok"

\* the lines an entry of errors names
ErrorRows(errors) == {errors[j].row : j \in 1..Len(errors)}

\* C11: every non-blank line after the header yields exactly one entry: an
\* entry of errors with the line's index as row, or an item in success; blank
\* lines yield none, entries come in line order, a failing line does not stop
\* the lines after it, and success.length + errors.length is the number of
\* non-blank lines.  The items in success are the rows the table has gained.
C11_OneEntryPerLine ==
  [][RanImport =>
       LET rows == last'.rows
           success == last'.success
           errors == last'.errors
       IN /\ Len(success) + Len(errors) = Cardinality(DataLines(rows))
          /\ ErrorRows(errors) \subseteq DataLines(rows)
          /\ \A j \in 1..Len(errors) : \A h \in 1..Len(errors) :
               j < h => errors[j].row < errors[h].row
          /\ Len(success) = Cardinality(DataLines(rows) \ ErrorRows(errors))
          /\ \A j \in 1..Len(success) : \A h \in 1..Len(success) :
               j # h => success[j] # success[h]
          /\ {i \in ItemIds : dbItems[i] = NoRow /\ dbItems'[i] # NoRow} =
               {success[j] : j \in 1..Len(success)}
          /\ \A i \in ItemIds : dbItems[i] # NoRow => dbItems'[i] = dbItems[i]]_vars

\* a blank line, then a line that fails, then a line that is imported
C11_Witness ==
  /\ last.op = "import"
  /\ last.outcome = "ok"
  /\ Len(last.rows) = 3
  /\ last.rows[1] = BlankLine
  /\ Len(last.errors) = 1
  /\ last.errors[1].row = 2
  /\ Len(last.success) = 1
  /\ dbItems[last.success[1]] # NoRow
  /\ dbItems[last.success[1]].name = last.rows[3].name

WellFormed(rows) ==
  {k \in DataLines(rows) :
     rows[k].name # EmptyText /\ rows[k].quantity # Absent /\ rows[k].unit # EmptyText}

\* the SKUs of the stored items as getInventoryItems returns them
StoredSkus(db) ==
  {db[i].sku[1] : i \in {j \in ItemIds :
                           db[j] # NoRow /\ db[j].sku # Absent
                           /\ db[j].sku # Some(EmptyText)}}

\* C13: a well-formed line whose SKU is that of an item stored when the import
\* started, or of an earlier line of the file that was imported, is reported
\* with 'already exists' and not inserted; a line whose SKU is only that of
\* earlier lines that were not imported is not reported so.
C13_DuplicateSkuInImport ==
  [][RanImport =>
       LET rows == last'.rows
           errors == last'.errors
           Imported == DataLines(rows) \ ErrorRows(errors)
           Taken(k) == StoredSkus(dbItems) \cup
                         {rows[j].sku[1] : j \in {h \in Imported :
                                                    h < k /\ rows[h].sku # Absent}}
       IN \A k \in WellFormed(rows) :
            rows[k].sku # Absent =>
              ((rows[k].sku[1] \in Taken(k)) <=>
                 \E j \in 1..Len(errors) :
                   errors[j].row = k /\ errors[j].error = "SKU already exists")]_vars

\* the insert of line 1 failed and line 2 with the same SKU was imported
C13_Witness ==
  /\ last.op = "import"
  /\ last.outcome = "ok"
  /\ Len(last.rows) = 2
  /\ WellFormed(last.rows) = {1, 2}
  /\ last.rows[1].sku = Some(SkuA)
  /\ last.rows[2].sku = Some(SkuA)
  /\ last.errors = <<[row |-> 1, error |-> "error"]>>
  /\ Len(last.success) = 1
  /\ dbItems[last.success[1]].sku = Some(SkuA)

\* C14: scanning the exported form of a list of cells without line breaks
\* (each cell wrapped in quotes with its quotes doubled when it holds a comma
\* or a quote, the cells joined with commas) returns the cells.
C14_ScanRoundTrip ==
  last.op = "scan" => last.values = last.cells

\* the header line as text
HeaderLine ==
  <<"N", "a", "m", "e", ",",
  "D", "e", "s", "c", "r", "i", "p", "t", "i", "o", "n", ",", "Q", "u", "a", "n", "t", "i", "t", "y", ",", "U", "n", "i", "t", ",",
  "P", "u", "r", "c", "h", "a", "s", "e", " ", "D", "a", "t", "e", ",", "S", "u", "p", "p", "l", "i", "e", "r", ",", "S", "K", "U", ",",
  "M", "i", "n", " ", "S", "t", "o", "c", "k", " ", "T", "h", "r", "e", "s", "h", "o", "l", "d">>

\* a cell as the export writes it: wrapped in quotes, its quotes doubled, when
\* it holds a comma or a quote
Wrapped(cell) ==
  IF \E k \in 1..Len(cell) : cell[k] \in {Comma, Quote}
  THEN <<Quote>> \o doubleQuotes(cell) \o <<Quote>>
  ELSE cell

\* the eight cells of an item in header order, absent fields empty
EightCells(item) ==
  <<item.name,
    IF item.description = Absent THEN EmptyText ELSE item.description[1],
    toString(item.quantity),
    item.unit,
    EmptyText,
    IF item.supplier = Absent THEN EmptyText ELSE item.supplier[1],
    IF item.sku = Absent THEN EmptyText ELSE item.sku[1],
    IF item.minStockThreshold = Absent THEN EmptyText
    ELSE toString(item.minStockThreshold[1])>>

\* C15: the exported text is the header line followed by exactly one line per
\* stored item in the order getInventoryItems returned them; each line has the
\* item's eight cells in header order, absent optional fields as empty cells,
\* a cell with a comma or a double quote wrapped in quotes, its quotes doubled.
C15_OneLinePerItem ==
  last.op = "export" =>
    LET lines == split(last.csvContent, NewLine) IN
      /\ lines[1] = HeaderLine
      /\ Len(lines) = 1 + Len(last.list)
      /\ \A k \in 1..Len(last.list) :
           lines[k + 1] =
             join([c \in 1..8 |-> Wrapped(EightCells(last.list[k])[c])], Comma)

\* the item fields the round trip is about
SameFields(a, b) ==
  /\ a.name = b.name
  /\ a.description = b.description
  /\ a.quantity = b.quantity
  /\ a.unit = b.unit
  /\ a.supplier = b.supplier
  /\ a.sku = b.sku
  /\ a.minStockThreshold = b.minStockThreshold

\* C19: when the exported items have pairwise distinct non-empty SKUs, the
\* import of the exported text into an empty inventory reports no error and
\* creates for each exported item exactly one item with the same name,
\* description, quantity, unit, supplier, SKU and minimum threshold.
C19_ExportImportLossless ==
  (/\ last.op = "reimport"
   /\ \A k \in 1..Len(last.list) : last.list[k].sku # Absent
   /\ \A k \in 1..Len(last.list) : \A h \in 1..Len(last.list) :
        k # h => last.list[k].sku # last.list[h].sku)
  => /\ last.errors = <<>>
     /\ Len(last.success) = Len(last.list)
     /\ \A k \in 1..Len(last.list) :
          Cardinality({i \in ItemIds : /\ last.imported[i] # NoItem
                                       /\ SameFields(last.imported[i], last.list[k])}) = 1

\* the step called addInventoryItem, updateInventoryItem, addStockMovement or
\* importInventoryFromCsv: a form that failed validation called none
CalledService ==
  \/ last'.op = "import"
  \/ last'.op \in {"add", "edit", "adjust"} /\ last'.outcome \notin {"invalid", "rejected"}

\* C16: without a signed-in user a call of addInventoryItem,
\* updateInventoryItem, addStockMovement or importInventoryFromCsv ends with
\* 'User not authenticated', whatever the database would have answered, and
\* leaves the stored items and movements as they were.
C16_UnauthenticatedRejected ==
  [][(~userId /\ CalledService) =>
       /\ last'.outcome = "User not authenticated"
       /\ dbItems' = dbItems
       /\ dbMovements' = dbMovements]_vars

\* an adjustment of a stored item was submitted after the session ended
C16_Witness ==
  /\ ~userId
  /\ last.op = "adjust"
  /\ last.outcome = "User not authenticated"
  /\ \E i \in ItemIds : dbItems[i] # NoRow
  /\ dbMovements = <<>>

\* the text without its leading and trailing blanks
Trimmed(q) ==
  CHOOSE t \in {SubSeq(q, a, b) : a \in 1..(Len(q) + 1), b \in 0..Len(q)} :
    /\ \E a \in 0..Len(q) : \E b \in 0..Len(q) :
         /\ a + Len(t) + b = Len(q)
         /\ \A k \in 1..a : q[k] = " "
         /\ \A k \in 1..b : q[Len(q) + 1 - k] = " "
         /\ t = SubSeq(q, a + 1, Len(q) - b)
    /\ t = <<>> \/ (t[1] # " " /\ t[Len(t)] # " ")

IsSubstring(needle, hay) ==
  \E start \in 1..(Len(hay) + 1) :
    /\ start + Len(needle) - 1 <= Len(hay)
    /\ SubSeq(hay, start, start + Len(needle) - 1) = needle

\* the item matches the query: the query is blank, or its trimmed lower-case
\* form occurs in the lower-case name, description, supplier or SKU
Matches(item, q) ==
  \/ Trimmed(q) = <<>>
  \/ \E field \in {Some(item.name), item.description, item.supplier, item.sku} :
       field # Absent /\ IsSubstring(toLowerCase(Trimmed(q)), toLowerCase(field[1]))

\* C17: the displayed list is the items that match the search under the
\* active tab: all matching items on the 'all' tab, the matching items whose
\* threshold is defined and not below their quantity on the low-stock tab; a
\* blank query matches every item.  'Clear filters' leaves the query empty and
\* the tab 'all', and every item displayed.
C17_DisplayedItems ==
  /\ [](filteredItems =
          {item \in ItemList(items) :
             /\ Matches(item, searchQuery)
             /\ activeTab = "low-stock" =>
                  (item.minStockThreshold # Absent
                   /\ item.quantity <= item.minStockThreshold[1])})
  /\ [][ClearFilters =>
          /\ searchQuery' = EmptyText
          /\ activeTab' = "all"
          /\ filteredItems' = ItemList(items')]_vars

\* the supplier of an item, and nothing else of it, matches the query typed
\* with a trailing blank and an upper-case letter, and another item is hidden
C17_Witness ==
  /\ searchQuery = <<"N", "u", " ">>
  /\ activeTab = "all"
  /\ \E item \in filteredItems :
       /\ item.supplier = Some(Nut)
       /\ item.description = Absent
  /\ \E item \in ItemList(items) : item \notin filteredItems

\* C18: the effect asks for page totalPages exactly when currentPage >
\* totalPages and totalPages > 0, and for no page when totalPages = 0 or
\* currentPage <= totalPages; a current page beyond the last page is therefore
\* followed by a current page between 1 and totalPages.
C18_PageClamped ==
  /\ [][last'.op = "effect" =>
          IF currentPage > totalPages /\ totalPages > 0
          THEN last'.requested = Some(totalPages) /\ currentPage' = totalPages
          ELSE last'.requested = Absent /\ currentPage' = currentPage]_vars
  /\ (currentPage > totalPages /\ totalPages > 0)
       ~> (1 <= currentPage /\ currentPage <= totalPages)

\* the effect has just moved the current page back to the last page
C18_Witness ==
  /\ last.op = "effect"
  /\ last.requested = Some(totalPages)
  /\ currentPage = totalPages
  /\ totalPages >= 1
  /\ totalPages < MaxPages

\* the item has no value in the field
Lacks(item, field) == field = "purchaseDate" /\ item.purchaseDate = Absent

\* the value of a in the field is at most that of b
AtMost(a, b, field) ==
  IF field = "name" THEN localeCompare(a.name, b.name) <= 0
  ELSE IF field = "quantity" THEN a.quantity <= b.quantity
  ELSE a.purchaseDate[1] <= b.purchaseDate[1]

\* C20: the table starts sorted by name ascending; toggleSort(f) flips the
\* direction and keeps the field when f is the current field, and otherwise
\* makes f the field and the direction ascending; whatever sort returns, the
\* rows are a permutation of the items in the order of the sort field in the
\* current direction, the items without a value in the field after all others
\* when ascending and before all others when descending.
C20_SortedRows ==
  /\ [](last.op = "table" => sortField = "name" /\ sortDirection = "asc")
  /\ [](\A rows \in sortedItems(tableItems, sortField, sortDirection) :
          /\ Len(rows) = Len(tableItems)
          /\ \A k \in 1..Len(tableItems) :
               Cardinality({h \in 1..Len(rows) : rows[h] = tableItems[k]}) = 1
          /\ \A i \in 1..Len(rows) : \A j \in 1..Len(rows) :
               i < j =>
                 IF sortDirection = "asc"
                 THEN /\ Lacks(rows[i], sortField) => Lacks(rows[j], sortField)
                      /\ (~Lacks(rows[i], sortField) /\ ~Lacks(rows[j], sortField))
                           => AtMost(rows[i], rows[j], sortField)
                 ELSE /\ Lacks(rows[j], sortField) => Lacks(rows[i], sortField)
                      /\ (~Lacks(rows[i], sortField) /\ ~Lacks(rows[j], sortField))
                           => AtMost(rows[j], rows[i], sortField))
  /\ [](sortedItems(tableItems, sortField, sortDirection) # {})
  /\ [][last'.op = "toggleSort" =>
          IF last'.field = sortField
          THEN /\ sortField' = sortField
               /\ sortDirection' # sortDirection
               /\ sortDirection' \in {"asc", "desc"}
          ELSE /\ sortField' = last'.field
               /\ sortDirection' = "asc"]_vars

\* three items, one without purchase date, are shown by date, latest first
C20_Witness ==
  /\ last.op = "toggleSort"
  /\ sortField = "purchaseDate"
  /\ sortDirection = "desc"
  /\ Len(tableItems) = 3
  /\ tableItems[1].purchaseDate = Some(1)
  /\ tableItems[2].purchaseDate = Absent
  /\ tableItems[3].purchaseDate = Some(2)
  /\ \E rows \in sortedItems(tableItems, sortField, sortDirection) :
       /\ rows[1] = tableItems[2]
       /\ rows[2] = tableItems[3]
       /\ rows[3] = tableItems[1]
====
